---------------------------- MODULE Spec2Model ----------------------------
(***************************************************************************)
(* Offer Tracker Dashboard (src/dashboard.py): the loader load_data, the   *)
(* period filter and the aggregates of the Streamlit script.               *)
(*                                                                         *)
(* Two specifications:                                                     *)
(*   Spec          the script as written, run after run.  No statement of  *)
(*                 the script binds the name df, so the first read of df   *)
(*                 in the filter section raises NameError.                 *)
(*   SpecPipeline  load_data applied to an uploaded table, and the         *)
(*                 script's sections applied to its result with df bound   *)
(*                 to it: the sections as functions of the table.          *)
(*                                                                         *)
(* Values.  A missing value (NaN, NaT, pd.NA) is the empty tuple NA; a     *)
(* present number n is <<n>>; a present date is <<y, m, d>>; a present     *)
(* hike, mean or rate is a reduced fraction <<num, den>>, den > 0.  A      *)
(* missing string cell is the string NaNStr.  A name of the script that is *)
(* not bound is Unbound; a bound one is <<value>>.                         *)
(* Offer dates are whole days.  CTC values are integers here; for integer   *)
(* CTC in 1..40 x 0..60 the float result of (offered-current)/current*100  *)
(* compares to the edges 0, 15, 30 and 50 exactly as the fraction does.    *)
(***************************************************************************)
EXTENDS Integers, Sequences, FiniteSets, TLC

\* Longest table of several rows drawn in Init.
MaxRows == 3

NA == <<>>
NaNStr == "<NaN>"
Unbound == <<>>
Bound(v) == <<v>>
Val(x) == x[1]

---------------------------------------------------------------------------
\* Fractions

Abs(n) == IF n < 0 THEN -n ELSE n

RECURSIVE GCD(_, _)
GCD(a, b) == IF b = 0 THEN a ELSE GCD(b, a % b)

\* n/d reduced, with a positive denominator (d # 0).
Rat(n, d) ==
    LET g == GCD(Abs(n), Abs(d))
        s == IF d < 0 THEN -1 ELSE 1
    IN  <<(s * n) \div g, (s * d) \div g>>

RatAdd(a, b) == Rat(a[1] * b[2] + b[1] * a[2], a[2] * b[2])
RatLeq(a, b) == a[1] * b[2] <= b[1] * a[2]
RatOfInt(n) == <<n, 1>>

\* f"{x:.1f}": one decimal, round half to even, the sign kept.
FormatOneDecimal(x) ==
    LET a == Abs(x[1]) * 10
        q == a \div x[2]
        r == a % x[2]
        t == IF 2 * r > x[2] THEN q + 1
             ELSE IF 2 * r = x[2] THEN q + (q % 2)
             ELSE q
    IN  (IF x[1] < 0 THEN "-" ELSE "") \o ToString(t \div 10) \o "." \o ToString(t % 10)

---------------------------------------------------------------------------
\* Cells of the uploaded sheet

NumCell(n) == [kind |-> "num", num |-> n, text |-> ""]
TextCell(s) == [kind |-> "text", num |-> 0, text |-> s]
BlankCell == [kind |-> "blank", num |-> 0, text |-> ""]
DateCell(d) == [kind |-> "date", date |-> d, text |-> ""]
DateText(s) == [kind |-> "text", date |-> NA, text |-> s]
DateBlank == [kind |-> "blank", date |-> NA, text |-> ""]

\* pd.to_numeric(errors='coerce'): a number stays, a numeric string is
\* parsed, any other text and a blank cell become NaN.
to_numeric(c) ==
    IF c.kind = "num" THEN <<c.num>>
    ELSE IF c.kind = "text" /\ c.text = "10" THEN <<10>>
    ELSE IF c.kind = "text" /\ c.text = "13" THEN <<13>>
    ELSE NA

\* pd.to_datetime(errors='coerce'): a date stays, a date string is parsed,
\* any other text and a blank cell become NaT.
to_datetime(c) ==
    IF c.kind = "date" THEN c.date
    ELSE IF c.kind = "text" /\ c.text = "2025-01-10" THEN <<2025, 1, 10>>
    ELSE NA

MonthAbbr ==
    <<"Jan", "Feb", "Mar", "Apr", "May", "Jun",
      "Jul", "Aug", "Sep", "Oct", "Nov", "Dec">>

\* strftime('%b %Y')
MonthLabel(d) == MonthAbbr[d[2]] \o " " \o ToString(d[1])

\* The character codes of a digit and of '-'.
Digit(n) == 48 + n
Hyphen == 45

\* to_period('M').astype(str): "YYYY-MM" as its character codes.
YearMonthKey(d) ==
    <<Digit(d[1] \div 1000), Digit((d[1] \div 100) % 10),
      Digit((d[1] \div 10) % 10), Digit(d[1] % 10), Hyphen,
      Digit(d[2] \div 10), Digit(d[2] % 10)>>

\* Order of two dates.
DateLeq(a, b) ==
    \/ a[1] < b[1]
    \/ a[1] = b[1] /\ a[2] < b[2]
    \/ a[1] = b[1] /\ a[2] = b[2] /\ a[3] <= b[3]

\* Order of two strings given as character codes.
RECURSIVE StrLess(_, _)
StrLess(s, t) ==
    IF t = <<>> THEN FALSE
    ELSE IF s = <<>> THEN TRUE
    ELSE IF Head(s) # Head(t) THEN Head(s) < Head(t)
    ELSE StrLess(Tail(s), Tail(t))

---------------------------------------------------------------------------
\* load_data

\* Variant of HikeValid without the test current > 0.
HikeValidAnyCurrent(cur, off) == cur # NA /\ off # NA

\* Lines 47-51: the mask `valid` of a row.
HikeValid(cur, off) == cur # NA /\ off # NA /\ cur[1] > 0

\* '% Hike Calculated' of a row.
HikeCalculated(cur, off) ==
    IF HikeValid(cur, off) THEN Rat((off[1] - cur[1]) * 100, cur[1]) ELSE NA

\* Variant of ctc_bin with the boundaries in the lower bin.
ctc_bin_upper_exclusive(ctc) ==
    IF ctc = NA THEN "Unknown"
    ELSE IF ctc[1] <= 10 THEN "<10L"
    ELSE IF ctc[1] <= 20 THEN "10-20L"
    ELSE IF ctc[1] <= 30 THEN "20-30L"
    ELSE ">=30L"

\* Lines 59-69; the label of the top bin, U+2265 30L, is written ">=30L".
ctc_bin(ctc) ==
    IF ctc = NA THEN "Unknown"
    ELSE IF ctc[1] < 10 THEN "<10L"
    ELSE IF ctc[1] < 20 THEN "10-20L"
    ELSE IF ctc[1] < 30 THEN "20-30L"
    ELSE ">=30L"

internal_sources == {"Employee Referral", "Internal Sourcing", "Direct"}

\* Variant of SourceType without 'Direct'.
SourceTypeTwoSources(x) ==
    IF x \in {"Employee Referral", "Internal Sourcing"} THEN "Internal" ELSE "External"

\* Line 74: exact membership; a missing source is in no list.
SourceType(x) == IF x \in internal_sources THEN "Internal" ELSE "External"

\* One row of the sheet with its derived columns.
Normalize(r) ==
    LET d == to_datetime(r.OfferDate)
        cur == to_numeric(r.Current)
        off == to_numeric(r.Offered)
    IN  [OfferDate |-> d,
         Month |-> IF d = NA THEN NaNStr ELSE MonthLabel(d),
         YearMonth |-> IF d = NA THEN NA ELSE YearMonthKey(d),
         Current |-> cur,
         Offered |-> off,
         Status |-> r.Status,
         Source |-> r.Source,
         Hike |-> HikeCalculated(cur, off),
         CTCBin |-> ctc_bin(off),
         SourceType |-> SourceType(r.Source)]

\* df.dropna(subset=['Offer Date'])
DropNaT(rows) == SelectSeq(rows, LAMBDA r : r.OfferDate # NA)

load_data(raw) == DropNaT([i \in 1..Len(raw) |-> Normalize(raw[i])])

---------------------------------------------------------------------------
\* The period filter

Range(s) == {s[i] : i \in 1..Len(s)}

MinDate(S) ==
    LET d == CHOOSE x \in S : \A y \in S : DateLeq(x, y) IN d

MaxDate(S) ==
    LET d == CHOOSE x \in S : \A y \in S : DateLeq(y, x) IN d

\* df['Offer Date'].min().date() and .max().date(); NaT for an empty table.
min_date(t) == IF t = <<>> THEN NA ELSE MinDate({r.OfferDate : r \in Range(t)})
max_date(t) == IF t = <<>> THEN NA ELSE MaxDate({r.OfferDate : r \in Range(t)})

\* sorted(df['Month'].unique()); only membership in it is used.
all_months(t) == {r.Month : r \in Range(t)}

\* Variant of DateRangeFilter with the end bound exclusive.
DateRangeFilterExclusiveEnd(t, dr) ==
    IF Len(dr) = 2
    THEN SelectSeq(t, LAMBDA r : DateLeq(dr[1], r.OfferDate)
                                 /\ DateLeq(r.OfferDate, dr[2]) /\ r.OfferDate # dr[2])
    ELSE t

\* Lines 107-114: two bounds select start <= date <= end, else the table.
DateRangeFilter(t, dr) ==
    IF Len(dr) = 2
    THEN SelectSeq(t, LAMBDA r : DateLeq(dr[1], r.OfferDate) /\ DateLeq(r.OfferDate, dr[2]))
    ELSE t

\* Variant of MonthFilter without the fallback for an empty selection.
MonthFilterNoFallback(t, sel) == SelectSeq(t, LAMBDA r : r.Month \in sel)

\* Line 122: isin(selected_months) when any is selected, else the table.
MonthFilter(t, sel) ==
    IF sel # {} THEN SelectSeq(t, LAMBDA r : r.Month \in sel) ELSE t

---------------------------------------------------------------------------
\* The aggregates

\* value_counts(): the count of each value present, NaN left out.
ValueCounts(vals) ==
    [v \in Range(vals) \ {NaNStr} |-> Len(SelectSeq(vals, LAMBDA x : x = v))]

IsJoined(r) == r.Status = "Joined"

RECURSIVE SumRat(_)
SumRat(hs) == IF hs = <<>> THEN RatOfInt(0) ELSE RatAdd(Head(hs), SumRat(Tail(hs)))

\* Series.dropna()
DropNA(vals) == SelectSeq(vals, LAMBDA x : x # NA)

\* Variant of Mean that is 0 when no value is present.
MeanZeroWhenEmpty(vals) ==
    LET hs == DropNA(vals)
    IN  IF hs = <<>> THEN RatOfInt(0)
        ELSE LET s == SumRat(hs) IN Rat(s[1], s[2] * Len(hs))

\* Series.mean(): the mean of the values present, NaN when there is none.
Mean(vals) ==
    LET hs == DropNA(vals)
    IN  IF hs = <<>> THEN NA
        ELSE LET s == SumRat(hs) IN Rat(s[1], s[2] * Len(hs))

\* Line 136
JoinRate(joined, total) ==
    IF total > 0 THEN Rat(joined * 100, total) ELSE RatOfInt(0)

\* The placeholder of line 145, U+2014.
Dash == "-"

\* Line 145: the text of the 'Avg % Hike' metric.
AvgHikeText(avg) == IF avg # NA THEN FormatOneDecimal(avg) \o "%" ELSE Dash

\* Line 138: a missing hike compares False.
Hike30Plus(t) ==
    Len(SelectSeq(t, LAMBDA r : r.Hike # NA /\ RatLeq(RatOfInt(30), r.Hike)))

\* Lines 134-140
KPIs(t) ==
    LET total == Len(t)
        joined == Len(SelectSeq(t, IsJoined))
        avg == Mean([i \in 1..Len(t) |-> t[i].Hike])
    IN  [total_offers |-> total,
         joined |-> joined,
         join_rate |-> JoinRate(joined, total),
         avg_hike |-> avg,
         avg_hike_text |-> AvgHikeText(avg),
         hike_30_plus |-> Hike30Plus(t),
         internal_count |-> Len(SelectSeq(t, LAMBDA r : r.SourceType = "Internal")),
         external_count |-> Len(SelectSeq(t, LAMBDA r : r.SourceType = "External"))]

hike_labels == <<"<0%", "0-15%", "15-30%", "30-50%", ">50%">>

\* pd.cut(bins=[-inf, 0, 15, 30, 50, inf]) with the default right=True:
\* the intervals (-inf, 0], (0, 15], (15, 30], (30, 50], (50, inf).
HikeBin(h) ==
    IF RatLeq(h, RatOfInt(0)) THEN 1
    ELSE IF RatLeq(h, RatOfInt(15)) THEN 2
    ELSE IF RatLeq(h, RatOfInt(30)) THEN 3
    ELSE IF RatLeq(h, RatOfInt(50)) THEN 4
    ELSE 5

\* Lines 163-176: the counts in label order, or no chart.
HikeDistribution(t) ==
    LET hike_data == DropNA([i \in 1..Len(t) |-> t[i].Hike])
    IN  IF hike_data # <<>>
        THEN [chart |-> TRUE,
              labels |-> hike_labels,
              counts |-> [i \in 1..5 |-> Len(SelectSeq(hike_data, LAMBDA h : HikeBin(h) = i))]]
        ELSE [chart |-> FALSE, labels |-> <<>>, counts |-> <<>>]

\* Lines 161-217
FilteredAnalysis(t) ==
    LET joined_df == SelectSeq(t, IsJoined)
        internal_joined == SelectSeq(joined_df, LAMBDA r : r.SourceType = "Internal")
    IN  [hike |-> HikeDistribution(t),
         ctc_counts |-> ValueCounts([i \in 1..Len(t) |-> t[i].CTCBin]),
         source_type_counts |->
             ValueCounts([i \in 1..Len(joined_df) |-> joined_df[i].SourceType]),
         internal_counts |->
             ValueCounts([i \in 1..Len(internal_joined) |-> internal_joined[i].Source])]

\* A set of keys as a sequence in ascending string order.
RECURSIVE SortKeys(_)
SortKeys(S) ==
    IF S = {} THEN <<>>
    ELSE LET k == CHOOSE x \in S : \A y \in S \ {x} : StrLess(x, y)
         IN  <<k>> \o SortKeys(S \ {k})

TrendRow(t, k) ==
    [Month |-> k,
     TotalOffers |-> Len(SelectSeq(t, LAMBDA r : r.YearMonth = k /\ r.OfferDate # NA)),
     Onboarded |-> Len(SelectSeq(t, LAMBDA r : r.YearMonth = k /\ IsJoined(r)))]

\* Lines 228-234: one row per 'Year-Month' key, sorted by the key.
FullTrend(t) ==
    LET keys == SortKeys({r.YearMonth : r \in Range(t)})
    IN  [i \in 1..Len(keys) |-> TrendRow(t, keys[i])]

\* Line 277
StatusAll(t) == ValueCounts([i \in 1..Len(t) |-> t[i].Status])

---------------------------------------------------------------------------
\* Inputs: the sheets a user may upload and the dates a user may pick

RawRow(d, c, o, st, src) ==
    [OfferDate |-> d, Current |-> c, Offered |-> o, Status |-> st, Source |-> src]

Dec30 == <<2024, 12, 30>>
Jan10 == <<2025, 1, 10>>
Jan31 == <<2025, 1, 31>>
Feb01 == <<2025, 2, 1>>
Oct05 == <<2025, 10, 5>>

\* The days the date picker offers.
Calendar == {Dec30, Jan10, Jan31, Feb01, Oct05}

CurrentCells ==
    {BlankCell, TextCell("abc"), TextCell("10")}
    \cup {NumCell(n) : n \in {-10, 0, 10, 20}}

OfferedCells ==
    {BlankCell, TextCell("abc"), TextCell("13")}
    \cup {NumCell(n) : n \in {5, 10, 13, 20, 22, 23, 25, 26, 28, 30, 35}}

DateCells == {DateCell(Jan10), DateText("2025-01-10"), DateText("n/a"), DateBlank}

Sources ==
    {"Employee Referral", "Internal Sourcing", "Direct", "direct", "Naukri", NaNStr}

Statuses == {"Joined", "Declined", NaNStr}

\* Rows over every pair of CTC cells, and over every date cell, status and source.
GridRows ==
    {RawRow(DateCell(Jan10), c, o, "Joined", "Naukri") : c \in CurrentCells, o \in OfferedCells}
    \cup {RawRow(d, NumCell(10), NumCell(13), st, src) :
            d \in DateCells, st \in Statuses, src \in Sources}

\* Rows of the tables of several rows.
CoreRows ==
    {RawRow(DateCell(Jan10), NumCell(10), NumCell(13), "Joined", "Employee Referral"),
     RawRow(DateCell(Oct05), NumCell(20), NumCell(20), "Joined", "Naukri"),
     RawRow(DateCell(Dec30), BlankCell, NumCell(35), "Declined", "Direct"),
     RawRow(DateCell(Feb01), NumCell(10), NumCell(5), "Joined", "direct"),
     RawRow(DateText("n/a"), NumCell(10), NumCell(20), "Joined", "Internal Sourcing"),
     RawRow(DateCell(Jan31), NumCell(0), NumCell(10), "Declined", NaNStr),
     RawRow(DateCell(Oct05), NumCell(20), BlankCell, NaNStr, "Employee Referral"),
     RawRow(DateCell(Jan10), NumCell(10), NumCell(16), "Declined", "Naukri")}

RECURSIVE SeqsUpTo(_, _)
SeqsUpTo(S, n) ==
    IF n = 0 THEN {<<>>}
    ELSE LET shorter == SeqsUpTo(S, n - 1)
         IN  shorter \cup {Append(t, r) : t \in shorter, r \in S}

RawTables == {<<r>> : r \in GridRows} \cup SeqsUpTo(CoreRows, MaxRows)

\* What st.date_input returns: the picked days within [min, max], two, one
\* or none of them; on an empty table min and max are NaT.
DateInputReturns(t) ==
    IF t = <<>> THEN {<<NA, NA>>}
    ELSE LET days == {d \in Calendar : DateLeq(min_date(t), d) /\ DateLeq(d, max_date(t))}
         IN  {p \in days \X days : DateLeq(p[1], p[2])}
             \cup {<<s>> : s \in days} \cup {<<>>}

\* What st.multiselect returns: some of the options.
MultiselectReturns(t) == SUBSET all_months(t)

---------------------------------------------------------------------------
\* State

VARIABLES
    uploaded_file,     \* NoFile, or <<the sheet>>
    df,                \* the name df of the script
    filter_type,       \* the radio's value
    date_range,        \* the date picker's value in this run
    selected_months,   \* the multiselect's value in this run
    df_filtered,
    kpi,               \* lines 134-140
    analysis,          \* lines 161-217
    full_trend,        \* lines 228-234
    status_all,        \* line 277
    pc,                \* where the run is
    executed           \* the sections this run has entered

vars ==
    <<uploaded_file, df, filter_type, date_range, selected_months, df_filtered,
      kpi, analysis, full_trend, status_all, pc, executed>>

NoFile == <<>>

FilterTypes == {"Date Range", "Select Months"}

\* The run is over: to the end, halted by st.stop(), or by an exception.
Ended == {"done", "stopped", "NameError", "WidgetError"}

LocalsUnbound ==
    /\ date_range = Unbound
    /\ selected_months = Unbound
    /\ df_filtered = Unbound
    /\ kpi = Unbound
    /\ analysis = Unbound
    /\ full_trend = Unbound
    /\ status_all = Unbound
    /\ executed = {}

\* The script as first run: no file yet, the radio at index 1.
Init ==
    /\ uploaded_file = NoFile
    /\ df = Unbound
    /\ filter_type = "Select Months"
    /\ pc = "upload_check"
    /\ LocalsUnbound

\* A sheet has been uploaded and load_data is about to be applied to it.
InitPipeline ==
    /\ uploaded_file \in {Bound(raw) : raw \in RawTables}
    /\ df = Unbound
    /\ filter_type = "Select Months"
    /\ pc = "load_data"
    /\ LocalsUnbound

---------------------------------------------------------------------------
\* The user's interactions; each starts a run of the whole script

StartRun ==
    /\ pc' = "upload_check"
    /\ date_range' = Unbound
    /\ selected_months' = Unbound
    /\ df_filtered' = Unbound
    /\ kpi' = Unbound
    /\ analysis' = Unbound
    /\ full_trend' = Unbound
    /\ status_all' = Unbound
    /\ executed' = {}

\* Line 83: the user uploads a sheet.
UploadFile ==
    /\ pc \in Ended
    /\ \E raw \in RawTables : uploaded_file' = Bound(raw)
    /\ StartRun
    /\ UNCHANGED <<df, filter_type>>

\* Line 83: the user removes the uploaded sheet.
RemoveFile ==
    /\ pc \in Ended
    /\ uploaded_file # NoFile
    /\ uploaded_file' = NoFile
    /\ StartRun
    /\ UNCHANGED <<df, filter_type>>

\* Line 96 and the widgets of the sidebar: the user changes the filter.
ChangeFilter ==
    /\ pc \in Ended
    /\ \E ft \in FilterTypes : filter_type' = ft
    /\ StartRun
    /\ UNCHANGED <<uploaded_file, df>>

---------------------------------------------------------------------------
\* The sections of the script

\* load_data applied to the uploaded sheet, df bound to the result.
CallLoadData ==
    /\ pc = "load_data"
    /\ df' = Bound(load_data(Val(uploaded_file)))
    /\ pc' = "upload_check"
    /\ executed' = executed \cup {"load_data"}
    /\ UNCHANGED <<uploaded_file, filter_type, date_range, selected_months,
                   df_filtered, kpi, analysis, full_trend, status_all>>

\* Variant of UploadCheck that warns and goes on.
UploadCheckNoStop ==
    /\ pc = "upload_check"
    /\ pc' = "filter"
    /\ executed' = IF uploaded_file = NoFile THEN executed \cup {"warning"} ELSE executed
    /\ UNCHANGED <<uploaded_file, df, filter_type, date_range, selected_months,
                   df_filtered, kpi, analysis, full_trend, status_all>>

\* Lines 90-92: without a file, the warning and st.stop().
UploadCheck ==
    /\ pc = "upload_check"
    /\ IF uploaded_file = NoFile
       THEN pc' = "stopped" /\ executed' = executed \cup {"warning"}
       ELSE pc' = "filter" /\ executed' = executed
    /\ UNCHANGED <<uploaded_file, df, filter_type, date_range, selected_months,
                   df_filtered, kpi, analysis, full_trend, status_all>>

\* Lines 94-124.  The first read of df (line 99 or 116) raises NameError
\* when df is not bound.  On an empty table the date picker is given NaT
\* bounds: it raises or returns them, and either way no row is selected.
FilterSection ==
    /\ pc = "filter"
    /\ executed' = executed \cup {"filter"}
    /\ IF df = Unbound
       THEN /\ pc' = "NameError"
            /\ UNCHANGED <<date_range, selected_months, df_filtered>>
       ELSE IF filter_type = "Date Range"
       THEN \E dr \in DateInputReturns(Val(df)),
               raised \in (IF Val(df) = <<>> THEN BOOLEAN ELSE {FALSE}) :
                IF raised
                THEN /\ pc' = "WidgetError"
                     /\ UNCHANGED <<date_range, selected_months, df_filtered>>
                ELSE /\ date_range' = Bound(dr)
                     /\ df_filtered' = Bound(DateRangeFilter(Val(df), dr))
                     /\ pc' = "kpis"
                     /\ UNCHANGED selected_months
       ELSE \E sel \in MultiselectReturns(Val(df)) :
                /\ selected_months' = Bound(sel)
                /\ df_filtered' = Bound(MonthFilter(Val(df), sel))
                /\ pc' = "kpis"
                /\ UNCHANGED date_range
    /\ UNCHANGED <<uploaded_file, df, filter_type, kpi, analysis, full_trend, status_all>>

\* Lines 130-148
KPISection ==
    /\ pc = "kpis"
    /\ kpi' = Bound(KPIs(Val(df_filtered)))
    /\ pc' = "analysis"
    /\ executed' = executed \cup {"kpis"}
    /\ UNCHANGED <<uploaded_file, df, filter_type, date_range, selected_months,
                   df_filtered, analysis, full_trend, status_all>>

\* Lines 156-217
AnalysisSection ==
    /\ pc = "analysis"
    /\ analysis' = Bound(FilteredAnalysis(Val(df_filtered)))
    /\ pc' = "trend"
    /\ executed' = executed \cup {"analysis"}
    /\ UNCHANGED <<uploaded_file, df, filter_type, date_range, selected_months,
                   df_filtered, kpi, full_trend, status_all>>

\* Variant of FullTrendOfTable that reads df_filtered.
FullTrendOfFiltered == FullTrend(Val(df_filtered))

\* Lines 228-234: the trend of the whole table df.
FullTrendOfTable == FullTrend(Val(df))

\* Lines 225-271
TrendSection ==
    /\ pc = "trend"
    /\ full_trend' = Bound(FullTrendOfTable)
    /\ pc' = "status"
    /\ executed' = executed \cup {"trend"}
    /\ UNCHANGED <<uploaded_file, df, filter_type, date_range, selected_months,
                   df_filtered, kpi, analysis, status_all>>

\* Lines 276-288
StatusSection ==
    /\ pc = "status"
    /\ status_all' = Bound(StatusAll(Val(df)))
    /\ pc' = "done"
    /\ executed' = executed \cup {"status"}
    /\ UNCHANGED <<uploaded_file, df, filter_type, date_range, selected_months,
                   df_filtered, kpi, analysis, full_trend>>

---------------------------------------------------------------------------
\* Specifications

\* The script as written.  The sections after the filter are not among its
\* steps: no run reaches them.
Next ==
    \/ UploadFile
    \/ RemoveFile
    \/ ChangeFilter
    \/ UploadCheck
    \/ FilterSection

Spec == Init /\ [][Next]_vars

\* load_data, then the sections on its result, then again on each change
\* of the filter.
NextPipeline ==
    \/ CallLoadData
    \/ UploadCheck
    \/ FilterSection
    \/ KPISection
    \/ AnalysisSection
    \/ TrendSection
    \/ StatusSection
    \/ ChangeFilter

SpecPipeline == InitPipeline /\ [][NextPipeline]_vars

---------------------------------------------------------------------------
\* Properties of the run

\* C1: on every run with a file uploaded, the table is obtained through the
\* loader before the filter section reads it, and the run does not abort.
C1_LoadedBeforeFilterAndNoAbort ==
    uploaded_file # NoFile =>
        /\ "filter" \in executed => (df # Unbound /\ "load_data" \in executed)
        /\ pc # "NameError"

\* C2: without a file the run halts at the prompt by st.stop(): the warning
\* is shown, no section after it is entered, nothing is computed.
C2_NoFileHaltsAtPrompt ==
    (uploaded_file = NoFile /\ pc # "upload_check") =>
        /\ pc = "stopped"
        /\ executed = {"warning"}
        /\ df_filtered = Unbound /\ kpi = Unbound /\ analysis = Unbound
        /\ full_trend = Unbound /\ status_all = Unbound

\* A run halted at the prompt after the user removed an uploaded sheet.
C2_Witness ==
    /\ uploaded_file = NoFile
    /\ pc = "stopped"
    /\ executed = {"warning"}

---------------------------------------------------------------------------
\* Properties of load_data

Rows(x) == {Val(x)[i] : i \in 1..Len(Val(x))}

\* C3: the hike of a loaded row is present exactly when current and offered
\* CTC are present and current > 0, and then it is (offered - current) /
\* current * 100; current = 10, offered = 13 gives 30.
C3_HikeDefinedIffValid ==
    df # Unbound =>
        \A r \in Rows(df) :
            /\ r.Hike # NA <=> (r.Current # NA /\ r.Offered # NA /\ r.Current[1] > 0)
            /\ r.Hike # NA =>
                   /\ r.Hike[2] > 0
                   /\ r.Hike[1] * r.Current[1] = (r.Offered[1] - r.Current[1]) * 100 * r.Hike[2]
            /\ (r.Current = <<10>> /\ r.Offered = <<13>>) => r.Hike = <<30, 1>>

\* A loaded table with a hike of 30 from 10 and 13 and a missing hike for a
\* current CTC of 0.
C3_Witness ==
    /\ df # Unbound
    /\ \E r \in Rows(df) : r.Current = <<10>> /\ r.Offered = <<13>> /\ r.Hike = <<30, 1>>
    /\ \E r \in Rows(df) : r.Current = <<0>> /\ r.Offered # NA /\ r.Hike = NA

\* C4: the CTC bin of a loaded row is Unknown iff offered is missing, <10L
\* iff offered < 10, 10-20L iff 10 <= offered < 20, 20-30L iff 20 <= offered
\* < 30, >=30L iff offered >= 30.
C4_CtcBinPartition ==
    df # Unbound =>
        \A r \in Rows(df) :
            /\ r.CTCBin \in {"Unknown", "<10L", "10-20L", "20-30L", ">=30L"}
            /\ r.CTCBin = "Unknown" <=> r.Offered = NA
            /\ r.CTCBin = "<10L" <=> (r.Offered # NA /\ r.Offered[1] < 10)
            /\ r.CTCBin = "10-20L" <=> (r.Offered # NA /\ 10 <= r.Offered[1] /\ r.Offered[1] < 20)
            /\ r.CTCBin = "20-30L" <=> (r.Offered # NA /\ 20 <= r.Offered[1] /\ r.Offered[1] < 30)
            /\ r.CTCBin = ">=30L" <=> (r.Offered # NA /\ r.Offered[1] >= 30)

\* A loaded row with an offered CTC on the boundary 30, in the top bin.
C4_Witness ==
    /\ df # Unbound
    /\ \E r \in Rows(df) : r.Offered = <<30>> /\ r.CTCBin = ">=30L"

\* C5: a loaded row is Internal iff its source is exactly one of the three
\* internal sources and External otherwise; the Internal and External
\* counts of a filtered table add up to its total.
C5_SourceTypeExhaustive ==
    /\ df # Unbound =>
           \A r \in Rows(df) :
               /\ r.SourceType = "Internal" <=>
                      r.Source \in {"Employee Referral", "Internal Sourcing", "Direct"}
               /\ r.SourceType = "External" <=>
                      r.Source \notin {"Employee Referral", "Internal Sourcing", "Direct"}
    /\ kpi # Unbound =>
           Val(kpi).internal_count + Val(kpi).external_count = Val(kpi).total_offers

\* KPIs of a filtered table with an Internal row and an External row whose
\* source differs from an internal one only in case.
C5_Witness ==
    /\ kpi # Unbound
    /\ Val(kpi).internal_count = 1 /\ Val(kpi).external_count = 1
    /\ \E r \in Rows(df_filtered) : r.Source = "Direct" /\ r.SourceType = "Internal"
    /\ \E r \in Rows(df_filtered) : r.Source = "direct" /\ r.SourceType = "External"

---------------------------------------------------------------------------
\* Properties of the filter

\* The rows of t at the indices in I, in the order of t.
RECURSIVE PickFrom(_, _, _)
PickFrom(t, I, i) ==
    IF i > Len(t) THEN <<>>
    ELSE (IF i \in I THEN <<t[i]>> ELSE <<>>) \o PickFrom(t, I, i + 1)

Pick(t, I) == PickFrom(t, I, 1)

Indices(t) == 1..Len(t)

\* C6: with every month label of the table selected, or with the date range
\* [minimum offer date, maximum offer date], the filtered table is the
\* table, row for row.
C6_FullSelectionIsIdentity ==
    df_filtered # Unbound =>
        /\ (filter_type = "Select Months"
            /\ Val(selected_months) = {r.Month : r \in Rows(df)})
               => Val(df_filtered) = Val(df)
        /\ (filter_type = "Date Range"
            /\ Val(date_range) = <<min_date(Val(df)), max_date(Val(df))>>)
               => Val(df_filtered) = Val(df)

\* The full date range on a table of two rows with different dates, the
\* later one first.
C6_Witness ==
    /\ df_filtered # Unbound
    /\ filter_type = "Date Range"
    /\ Len(Val(df)) = 2
    /\ Val(df)[1].OfferDate # Val(df)[2].OfferDate
    /\ DateLeq(Val(df)[2].OfferDate, Val(df)[1].OfferDate)
    /\ Val(date_range) = <<Val(df)[2].OfferDate, Val(df)[1].OfferDate>>
    /\ Val(df_filtered) = Val(df)

\* C7: the filtered table is the table's rows at some indices, in the
\* table's order, and the table stays what load_data returned; two date
\* bounds keep exactly the rows with start <= offer date <= end, another
\* number of bounds keeps every row; an empty month selection keeps every
\* row, a non-empty one exactly the rows whose month label is selected.
C7_FilterIsOrderedSelection ==
    df_filtered # Unbound =>
        LET t == Val(df)
            f == Val(df_filtered)
        IN  /\ \E I \in SUBSET Indices(t) : f = Pick(t, I)
            /\ t = load_data(Val(uploaded_file))
            /\ filter_type = "Date Range" =>
                   IF Len(Val(date_range)) = 2
                   THEN f = Pick(t, {i \in Indices(t) :
                                       /\ DateLeq(Val(date_range)[1], t[i].OfferDate)
                                       /\ DateLeq(t[i].OfferDate, Val(date_range)[2])})
                   ELSE f = t
            /\ filter_type = "Select Months" =>
                   IF Val(selected_months) = {}
                   THEN f = t
                   ELSE f = Pick(t, {i \in Indices(t) :
                                       MonthLabel(t[i].OfferDate) \in Val(selected_months)})

\* Two date bounds that keep one row of two, the kept row dated on the end
\* bound itself.
C7_Witness ==
    /\ df_filtered # Unbound
    /\ filter_type = "Date Range"
    /\ Len(Val(date_range)) = 2
    /\ Len(Val(df)) = 2
    /\ Len(Val(df_filtered)) = 1
    /\ Val(df_filtered)[1].OfferDate = Val(date_range)[2]
    /\ Val(date_range)[1] # Val(date_range)[2]

---------------------------------------------------------------------------
\* Properties of the aggregates

\* The year and month of a row's offer date.
YM(r) == <<r.OfferDate[1], r.OfferDate[2]>>

YMBefore(a, b) == a[1] < b[1] \/ (a[1] = b[1] /\ a[2] < b[2])

\* C8: whatever the filter, the trend is that of the table load_data
\* returned: one entry per year-month of the table, with the number of its
\* offers and of its Joined offers, the entries in ascending year-month
\* order; and the status distribution counts each status of that table.
C8_TrendAndStatusOfWholeTable ==
    LET t == load_data(Val(uploaded_file))
        months == {YM(r) : r \in Range(t)}
    IN  /\ full_trend # Unbound =>
            LET tr == Val(full_trend)
            IN  /\ Len(tr) = Cardinality(months)
                /\ \A m \in months : \E i \in 1..Len(tr) :
                       /\ tr[i].Month = YearMonthKey(<<m[1], m[2], 1>>)
                       /\ tr[i].TotalOffers = Cardinality({j \in Indices(t) : YM(t[j]) = m})
                       /\ tr[i].Onboarded =
                              Cardinality({j \in Indices(t) :
                                             YM(t[j]) = m /\ t[j].Status = "Joined"})
                /\ \A i, j \in 1..Len(tr) : i < j =>
                       \E a, b \in months :
                           /\ tr[i].Month = YearMonthKey(<<a[1], a[2], 1>>)
                           /\ tr[j].Month = YearMonthKey(<<b[1], b[2], 1>>)
                           /\ YMBefore(a, b)
                /\ \A r \in Range(t) : r.OfferDate = Jan10 =>
                       \E i \in 1..Len(tr) : tr[i].Month = <<50, 48, 50, 53, 45, 48, 49>>
        /\ status_all # Unbound =>
            /\ DOMAIN Val(status_all) = {r.Status : r \in Range(t)} \ {NaNStr}
            /\ \A st \in DOMAIN Val(status_all) :
                   Val(status_all)[st] = Cardinality({j \in Indices(t) : t[j].Status = st})

\* A finished run whose filter keeps one month of two: the trend still has
\* both, February before October.
C8_Witness ==
    /\ pc = "done"
    /\ Len(Val(df)) = 2
    /\ Len(Val(df_filtered)) = 1
    /\ Len(Val(full_trend)) = 2
    /\ Val(full_trend)[1].Month = YearMonthKey(Feb01)
    /\ Val(full_trend)[2].Month = YearMonthKey(Oct05)
    /\ Val(full_trend)[2].Onboarded = 1
    /\ DOMAIN Val(status_all) = {"Joined"}

\* The indices of the rows of t with a hike.
WithHike(t) == {i \in Indices(t) : t[i].Hike # NA}

\* The sum over the indices in I of hike * D, D a multiple of every
\* denominator.
RECURSIVE ScaledSum(_, _, _)
ScaledSum(t, I, D) ==
    IF I = {} THEN 0
    ELSE LET i == CHOOSE x \in I : TRUE
         IN  t[i].Hike[1] * (D \div t[i].Hike[2]) + ScaledSum(t, I \ {i}, D)

RECURSIVE DenProduct(_, _)
DenProduct(t, I) ==
    IF I = {} THEN 1
    ELSE LET i == CHOOSE x \in I : TRUE
         IN  t[i].Hike[2] * DenProduct(t, I \ {i})

\* C9: the join rate is joined / total * 100 on a non-empty filtered table
\* and 0 on an empty one; the mean hike is the mean of the hikes present,
\* and is missing and shown as the dash when none is present; a run with a
\* filtered table is not ended by an exception.
C9_JoinRateAndMeanHike ==
    /\ df_filtered # Unbound => pc \notin {"NameError", "WidgetError", "stopped"}
    /\ kpi # Unbound =>
        LET f == Val(df_filtered)
            k == Val(kpi)
            H == WithHike(f)
            D == DenProduct(f, H)
        IN  /\ k.total_offers = Len(f)
            /\ k.joined = Cardinality({i \in Indices(f) : f[i].Status = "Joined"})
            /\ Len(f) > 0 =>
                   /\ k.join_rate[2] > 0
                   /\ k.join_rate[1] * Len(f) = k.joined * 100 * k.join_rate[2]
            /\ Len(f) = 0 => k.join_rate = <<0, 1>>
            /\ H # {} =>
                   /\ k.avg_hike # NA
                   /\ k.avg_hike[2] > 0
                   /\ k.avg_hike[1] * Cardinality(H) * D = ScaledSum(f, H, D) * k.avg_hike[2]
                   /\ k.avg_hike_text # Dash
            /\ H = {} =>
                   /\ k.avg_hike = NA
                   /\ k.avg_hike_text = Dash
                   /\ k.avg_hike_text # "0.0%"

\* KPIs of an empty filtered table of a non-empty table: a date range in a
\* gap between two offer dates.
C9_Witness ==
    /\ kpi # Unbound
    /\ Len(Val(df)) = 2
    /\ Val(df_filtered) = <<>>
    /\ Val(kpi).join_rate = <<0, 1>>
    /\ Val(kpi).avg_hike_text = Dash

\* C10: when the filtered table has a hike, the histogram has the five
\* labelled bins in order, its counts add up to the number of hikes, the
\* '<0%' bin counts the hikes below 0 (a hike of 0 is in '0-15%'), and the
\* '30-50%' and '>50%' bins together count the hikes >= 30, the 'Hike >=30%'
\* KPI (a hike of 30 is in '30-50%').
C10_HistogramAgreesWithKPI ==
    analysis # Unbound =>
        LET f == Val(df_filtered)
            h == Val(analysis).hike
            H == WithHike(f)
        IN  H # {} =>
                /\ h.chart
                /\ h.labels = <<"<0%", "0-15%", "15-30%", "30-50%", ">50%">>
                /\ h.counts[1] + h.counts[2] + h.counts[3] + h.counts[4] + h.counts[5]
                       = Cardinality(H)
                /\ h.counts[1] = Cardinality({i \in H : f[i].Hike[1] < 0})
                /\ h.counts[4] + h.counts[5] = Val(kpi).hike_30_plus
                /\ Val(kpi).hike_30_plus =
                       Cardinality({i \in H : f[i].Hike[1] >= 30 * f[i].Hike[2]})

=============================================================================
